---- MODULE Spec2Model ----
(***************************************************************************)
(* A model of app.py, the SMS Blast XDAYS application: header              *)
(* reconciliation (normalize, map_and_align_columns), the cycle detector,  *)
(* the derivation pipeline (process_data as bound at run time, i.e. the    *)
(* second definition of that name), the preview renderer and the two       *)
(* handlers of main (Step 1: upload and process, Step 2: review/export).   *)
(*                                                                         *)
(* Text is modelled by TLA+ strings, taken apart with Len, SubSeq, Head,   *)
(* Tail and \o.  A table cell is a record [k, v]: k = "s" for a string     *)
(* with text v, k = "NA" for pandas' pd.NA and k = "NaN" for the float nan *)
(* that a reindex fills in; v is then what str() prints for it.            *)
(***************************************************************************)
EXTENDS Integers, Sequences, FiniteSets, TLC

VARIABLES
    pc,          \* "idle" | "processed" | "error" | "exported" (pipeline); "start" | "done" (function checks)
    raw,         \* the decoded upload: [name, columns, rows], rows[i][j] a string
    cycle,       \* detect_cycle_from_filename(raw.name)
    cleaned,     \* the frame after main's numeric cleanup, the argument of process_data
    detection,   \* detection_info of map_and_align_columns: target -> [rule, col]
    processed,   \* st.session_state["processed_main"]
    rendered,    \* per row, the numbers format_preview put in for {OB}, {MPR}, {PDA}
    downloads,   \* the artifacts Step 2 offers
    fnInput,     \* input of the function under check (cycle detector, renderer)
    fnOutput     \* its result

vars == <<pc, raw, cycle, cleaned, detection, processed, rendered, downloads,
          fnInput, fnOutput>>

-----------------------------------------------------------------------------
(* Bounds of the model *)

MaxCols == 3
MaxRows == 2
MaxNameLen == 5

-----------------------------------------------------------------------------
(* Text helpers *)

UpperChars == "ABCDEFGHIJKLMNOPQRSTUVWXYZ"
LowerChars == "abcdefghijklmnopqrstuvwxyz"
DigitChars == "0123456789"

Ch(s, i) == SubSeq(s, i, i)

\* position of the one-character string c in alphabet, 0 when absent
IndexIn(c, alphabet) ==
    IF \E i \in 1..Len(alphabet) : Ch(alphabet, i) = c
    THEN CHOOSE i \in 1..Len(alphabet) : Ch(alphabet, i) = c
    ELSE 0

CharsOf(alphabet) == { Ch(alphabet, i) : i \in 1..Len(alphabet) }

DigitSet == CharsOf(DigitChars)
UpperSet == CharsOf(UpperChars)
LowerSet == CharsOf(LowerChars)
DigitValueOf == [c \in DigitSet |-> IndexIn(c, DigitChars) - 1]
LowerOf == [c \in UpperSet |-> Ch(LowerChars, IndexIn(c, UpperChars))]

IsDigit(c) == c \in DigitSet
DigitVal(c) == DigitValueOf[c]
IsSpace(c) == c = " "

LowerCh(c) == IF c \in UpperSet THEN LowerOf[c] ELSE c

RECURSIVE PyLower(_)
PyLower(s) == IF s = "" THEN "" ELSE LowerCh(Head(s)) \o PyLower(Tail(s))

\* Python's  n in h  for strings
Contains(h, n) == \E i \in 1..(Len(h) - Len(n) + 1) : SubSeq(h, i, i + Len(n) - 1) = n

RECURSIVE PyStrip(_)
PyStrip(s) ==
    IF s = "" THEN ""
    ELSE IF IsSpace(Head(s)) THEN PyStrip(Tail(s))
    ELSE IF IsSpace(Ch(s, Len(s))) THEN PyStrip(SubSeq(s, 1, Len(s) - 1))
    ELSE s

\* str.replace(s, key, value): leftmost, non-overlapping occurrences; key is not empty
RECURSIVE PyReplace(_, _, _)
PyReplace(s, key, value) ==
    IF Len(s) < Len(key) THEN s
    ELSE IF SubSeq(s, 1, Len(key)) = key
         THEN value \o PyReplace(SubSeq(s, Len(key) + 1, Len(s)), key, value)
         ELSE Head(s) \o PyReplace(Tail(s), key, value)

\* all strings over the characters of alphabet, of length 0..n
RECURSIVE StringsUpTo(_, _)
StringsUpTo(alphabet, n) ==
    IF n = 0 THEN {""}
    ELSE LET shorter == StringsUpTo(alphabet, n - 1)
         IN  shorter \cup { s \o Ch(alphabet, i) : s \in shorter, i \in 1..Len(alphabet) }

-----------------------------------------------------------------------------
(* Configuration *)

TARGET_HEADERS ==
    << "CYCLE", "LOAN NUMBER", "CUSTOMER NAME", "MOBILE NUMBER", "BOS/CB", "OB", "MPR",
       "PDA", "PTP AMT", "PTP DATE", "TPAP DD", "BUCKET", "WITH CONTACT Y/N",
       "SMS TEMPLATE", "PREVIEW" >>

EXPORT_HEADERS == SelectSeq(TARGET_HEADERS, LAMBDA h : h # "PREVIEW")

HEADER_ALIASES ==
    [ t \in { TARGET_HEADERS[i] : i \in 1..Len(TARGET_HEADERS) } |->
        CASE t = "CYCLE" -> << "COLLECTION CYCLE", "CYCLES" >>
          [] t = "LOAN NUMBER" -> << "LOAN NO", "LOAN#", "loan number", "ACCOUNT NUMBER",
                                     "ACCOUNT NO", "ACCT NO", "ACCT NUMBER" >>
          [] t = "CUSTOMER NAME" -> << "CLIENT NAME", "BORROWER NAME", "CUSTOMER", "NAME" >>
          [] t = "MOBILE NUMBER" -> << "CONTACT NO", "CONTACT NUMBER", "CELLPHONE NO",
                                       "PHONE NUMBER", "MOBILE NO" >>
          [] t = "BOS/CB" -> << "BOS", "CB", "BRANCH", "CENTER" >>
          [] t = "OB" -> << "Amount Overdue", "OUTSTANDING BALANCE", "AMOUNT_OUTSTANDING",
                            "OUTSTANDING", "OVERDUE AMOUNT" >>
          [] t = "MPR" -> << "MONTHLY PAYMENT RATE", "MPR VALUE", "MAD" >>
          [] t = "PDA" -> << "XDAYS", "XDAYS_AMOUNT", "pda" >>
          [] t = "PTP AMT" -> << "PTP AMOUNT", "PROMISE TO PAY AMT", "AMOUNT PROMISED" >>
          [] t = "PTP DATE" -> << "PROMISE DATE", "PROMISED DATE", "PTP SCHEDULE" >>
          [] t = "TPAP DD" -> << "TPAP DATE", "TPA DATE", "TPAP SCHED", "TPA DD" >>
          [] t = "BUCKET" -> << "AGING BUCKET", "AGE", "BUCKET CATEGORY" >>
          [] t = "WITH CONTACT Y/N" -> << "WITH CONTACT", "CONTACTABLE", "HAS CONTACT" >>
          [] t = "SMS TEMPLATE" -> << "TEMPLATE", "MESSAGE TYPE", "SMS TYPE" >>
          [] t = "PREVIEW" -> << "MESSAGE PREVIEW", "TEXT PREVIEW" >> ]

-----------------------------------------------------------------------------
(* Utility functions *)

IsAlnumLower(c) == c \in LowerSet \/ c \in DigitSet

\* re.sub(r"[^a-z0-9]", "", str(col).lower())
RECURSIVE NormalizeText(_)
NormalizeText(col) ==
    IF col = "" THEN ""
    ELSE LET c == LowerCh(Head(col))
         IN  (IF IsAlnumLower(c) THEN c ELSE "") \o NormalizeText(Tail(col))

\* the normalized forms of the configured names, computed once
ConfiguredNames ==
    { TARGET_HEADERS[i] : i \in 1..Len(TARGET_HEADERS) }
    \cup UNION { { HEADER_ALIASES[t][a] : a \in 1..Len(HEADER_ALIASES[t]) } : t \in DOMAIN HEADER_ALIASES }

NormalizedConfigured == [name \in ConfiguredNames |-> NormalizeText(name)]

normalize(col) ==
    IF col \in ConfiguredNames THEN NormalizedConfigured[col] ELSE NormalizeText(col)

IsC(c) == c = "c" \/ c = "C"

\* the digits \d{1,3} takes at the head of s: greedy, at most 3
RECURSIVE TakeDigits(_, _)
TakeDigits(s, most) ==
    IF most = 0 \/ s = "" \/ ~IsDigit(Head(s)) THEN ""
    ELSE Head(s) \o TakeDigits(Tail(s), most - 1)

CycleGroupMax == 3

\* re.search(r"c(\d{1,3})", filename, flags=re.IGNORECASE); group(1) or ""
detect_cycle_from_filename(filename) ==
    LET hits == { i \in 1..(Len(filename) - 1) :
                    IsC(Ch(filename, i)) /\ IsDigit(Ch(filename, i + 1)) }
    IN  IF filename = "" \/ hits = {} THEN ""
        ELSE LET first == CHOOSE i \in hits : \A j \in hits : i <= j
             IN  TakeDigits(SubSeq(filename, first + 1, Len(filename)), CycleGroupMax)

-----------------------------------------------------------------------------
(* Cells and frames (pandas) *)

S(text) == [k |-> "s", v |-> text]
NA == [k |-> "NA", v |-> "<NA>"]
NaN == [k |-> "NaN", v |-> "nan"]

isna(cell) == cell.k # "s"
PyStr(cell) == cell.v

NoFrame == [n |-> 0, cols |-> <<>>]

ColumnNames(frame) == [j \in 1..Len(frame.cols) |-> frame.cols[j].name]

ColIndex(frame, key) ==
    IF \E j \in 1..Len(frame.cols) : frame.cols[j].name = key
    THEN CHOOSE j \in 1..Len(frame.cols) : frame.cols[j].name = key
    ELSE 0

Column(frame, key) == frame.cols[ColIndex(frame, key)].vals

\* frame[key] = vals for a column of the frame's length: in place when the key
\* exists, appended as the last column otherwise
PutColumn(frame, key, vals) ==
    IF ColIndex(frame, key) > 0
    THEN [frame EXCEPT !.cols[ColIndex(frame, key)].vals = vals]
    ELSE [frame EXCEPT !.cols = Append(frame.cols, [name |-> key, vals |-> vals])]

\* frame[key] = scalar: broadcast over the frame's index (no rows, no values)
SetScalar(frame, key, cell) == PutColumn(frame, key, [i \in 1..frame.n |-> cell])

\* frame[key] = series, the series carrying the index 0..Len-1.  A frame whose
\* index is empty takes the index of a non-empty series first, its existing
\* columns reindexed to nan; otherwise the series is aligned to the frame's index.
SetSeries(frame, key, series) ==
    IF frame.n = 0 /\ Len(series) > 0
    THEN PutColumn([n |-> Len(series),
                    cols |-> [j \in 1..Len(frame.cols) |->
                                [name |-> frame.cols[j].name,
                                 vals |-> [i \in 1..Len(series) |-> NaN]]]],
                   key, series)
    ELSE PutColumn(frame, key,
                   [i \in 1..frame.n |-> IF i <= Len(series) THEN series[i] ELSE NaN])

\* the row i of a frame as a mapping: column name -> cell
RowOf(frame, i) ==
    [h \in { frame.cols[j].name : j \in 1..Len(frame.cols) } |-> Column(frame, h)[i]]

\* row.get(key, default)
RowGet(row, key, default) == IF key \in DOMAIN row THEN row[key] ELSE default

-----------------------------------------------------------------------------
(* map_and_align_columns *)

NotFound == "(Not Found)"

\* normalize(c) for c in existing, in column order
NormalizedExisting(existing) == [i \in 1..Len(existing) |-> normalize(existing[i])]

HasNorm(norms, key) == \E i \in 1..Len(norms) : norms[i] = key

\* normalized_existing[key]: the dict comprehension keeps the last column of a key
LastWithNorm(existing, norms, key) ==
    existing[CHOOSE i \in 1..Len(norms) :
                norms[i] = key /\ \A j \in (i + 1)..Len(norms) : norms[j] # key]

DirectMatch(existing, norms, target) ==
    IF HasNorm(norms, normalize(target))
    THEN LastWithNorm(existing, norms, normalize(target)) ELSE NotFound

\* the first alias, in the order of the alias list, that some column normalizes to
AliasMatch(existing, norms, target) ==
    IF target \notin DOMAIN HEADER_ALIASES THEN NotFound
    ELSE LET aliases == HEADER_ALIASES[target]
             found == { a \in 1..Len(aliases) : HasNorm(norms, normalize(aliases[a])) }
         IN  IF found = {} THEN NotFound
             ELSE LastWithNorm(existing, norms,
                      normalize(aliases[CHOOSE a \in found : \A b \in found : a <= b]))

IsFuzzy(norm, n_target) == Contains(norm, n_target) \/ Contains(n_target, norm)

\* the first column, in column order, one of whose normalized forms contains the other
FuzzyMatch(existing, norms, target) ==
    LET found == { i \in 1..Len(norms) : IsFuzzy(norms[i], normalize(target)) }
    IN  IF found = {} THEN NotFound
        ELSE existing[CHOOSE i \in found : \A j \in found : i <= j]

Resolved(ruleName, column) == [rule |-> ruleName, col |-> column]
Unresolved == [rule |-> "Unresolved", col |-> NotFound]

\* a plausible slip: the partial match is tried before the exact ones
DetectColumnFuzzyFirst(existing, norms, target) ==
    IF FuzzyMatch(existing, norms, target) # NotFound
    THEN Resolved("Fuzzy", FuzzyMatch(existing, norms, target))
    ELSE Unresolved

\* one pass of the loop over target_headers: direct, else alias, else fuzzy
DetectColumn(existing, norms, target) ==
    IF DirectMatch(existing, norms, target) # NotFound
    THEN Resolved("Direct", DirectMatch(existing, norms, target))
    ELSE IF AliasMatch(existing, norms, target) # NotFound
    THEN Resolved("Alias", AliasMatch(existing, norms, target))
    ELSE IF FuzzyMatch(existing, norms, target) # NotFound
    THEN Resolved("Fuzzy", FuzzyMatch(existing, norms, target))
    ELSE Unresolved

\* detection_info, by position in target_headers
detection_info(df, target_headers) ==
    LET existing == ColumnNames(df)
    IN  CHOOSE info \in
            { [k \in 1..Len(target_headers) |-> DetectColumn(existing, norms, target_headers[k])] :
                norms \in { NormalizedExisting(existing) } } : TRUE

\* out[target] = df[detected_col], or out[target] = pd.NA
AlignStep(df, out, target, match) ==
    IF match.rule = "Unresolved" THEN SetScalar(out, target, NA)
    ELSE SetSeries(out, target, Column(df, match.col))

RECURSIVE AlignFrom(_, _, _, _, _)
AlignFrom(df, target_headers, info, k, out) ==
    IF k > Len(target_headers) THEN out
    ELSE AlignFrom(df, target_headers, info, k + 1,
                   AlignStep(df, out, target_headers[k], info[k]))

\* the aligned frame, given the detection_info the loop builds on its way
map_and_align_columns(df, target_headers, info) ==
    AlignFrom(df, target_headers, info, 1, NoFrame)

-----------------------------------------------------------------------------
(* Numbers.  A Python float is modelled by [ok, nan, cents]: cents is the value
   in hundredths, exact for the amounts of the model, which carry at most two
   decimals and neither an exponent, an underscore nor "inf". *)

Decimals == 2
CentsPerUnit == 100

RECURSIVE DigitsValue(_)
DigitsValue(s) == IF s = "" THEN 0 ELSE DigitsValue(SubSeq(s, 1, Len(s) - 1)) * 10 + DigitVal(Ch(s, Len(s)))

AllDigits(s) == \A i \in 1..Len(s) : IsDigit(Ch(s, i))

RECURSIVE NatToStr(_)
NatToStr(n) == IF n < 10 THEN Ch(DigitChars, n + 1) ELSE NatToStr(n \div 10) \o Ch(DigitChars, (n % 10) + 1)

RECURSIVE PadLeft(_, _)
PadLeft(s, width) == IF Len(s) >= width THEN s ELSE PadLeft("0" \o s, width)

RECURSIVE PadRight(_, _)
PadRight(s, width) == IF Len(s) >= width THEN s ELSE PadRight(s \o "0", width)

Failed == [ok |-> FALSE, nan |-> FALSE, cents |-> 0]
Num(c) == [ok |-> TRUE, nan |-> FALSE, cents |-> c]
NotANumber == [ok |-> TRUE, nan |-> TRUE, cents |-> 0]

\* digits, optionally a point and more digits; at least one digit
UnsignedDecimal(body) ==
    LET dots == { i \in 1..Len(body) : Ch(body, i) = "." }
        dot == IF dots = {} THEN Len(body) + 1 ELSE CHOOSE i \in dots : TRUE
        whole == SubSeq(body, 1, dot - 1)
        frac == SubSeq(body, dot + 1, Len(body))
    IN  IF /\ Cardinality(dots) <= 1
           /\ AllDigits(whole) /\ AllDigits(frac)
           /\ Len(whole) + Len(frac) > 0
           /\ Len(frac) <= Decimals
        THEN Num(DigitsValue(whole) * CentsPerUnit + DigitsValue(PadRight(frac, Decimals)))
        ELSE Failed

\* float(text): surrounding whitespace and a sign are accepted; ValueError otherwise
PyFloat(text) ==
    LET t == PyStrip(text)
        signed == t # "" /\ Head(t) \in {"-", "+"}
        body == IF signed THEN Tail(t) ELSE t
        u == UnsignedDecimal(body)
    IN  IF PyLower(body) = "nan" THEN NotANumber
        ELSE IF u.ok /\ signed /\ Head(t) = "-" THEN Num(0 - u.cents)
        ELSE u

\* thousands grouping of a natural number
RECURSIVE Grouped(_)
Grouped(n) ==
    IF n < 1000 THEN NatToStr(n)
    ELSE Grouped(n \div 1000) \o "," \o PadLeft(NatToStr(n % 1000), 3)

\* f"{x:,.2f}"
Format2f(x) ==
    IF x.nan THEN "nan"
    ELSE LET a == IF x.cents < 0 THEN 0 - x.cents ELSE x.cents
         IN  (IF x.cents < 0 THEN "-" ELSE "")
             \o Grouped(a \div CentsPerUnit) \o "."
             \o PadLeft(NatToStr(a % CentsPerUnit), Decimals)

-----------------------------------------------------------------------------
(* Derived fields *)

Bucket100K == 100000
Bucket50K == 50000
Bucket6K == 6000

\* a plausible slip: strict comparisons at the thresholds
BucketOfValueStrict(val) ==
    IF val.nan THEN NA
    ELSE IF val.cents > Bucket100K * CentsPerUnit THEN S("100K and up")
    ELSE IF val.cents > Bucket50K * CentsPerUnit THEN S("50K - 99K")
    ELSE IF val.cents > Bucket6K * CentsPerUnit THEN S("6K - 49K")
    ELSE IF val.cents > 0 THEN S("0 - 5K")
    ELSE NA

\* the if-chain of calculate_bucket on a parsed value
BucketOfValue(val) ==
    IF val.nan THEN NA
    ELSE IF val.cents >= Bucket100K * CentsPerUnit THEN S("100K and up")
    ELSE IF val.cents >= Bucket50K * CentsPerUnit THEN S("50K - 99K")
    ELSE IF val.cents >= Bucket6K * CentsPerUnit THEN S("6K - 49K")
    ELSE IF val.cents >= 0 THEN S("0 - 5K")
    ELSE NA

\* float(str(ob_value).replace(",", "").strip()), any exception giving pd.NA
calculate_bucket(ob_value) ==
    LET val == PyFloat(PyStrip(PyReplace(PyStr(ob_value), ",", "")))
    IN  IF val.ok THEN BucketOfValue(val) ELSE NA

\* re.match(r"^63\d{10}$", str(mobile).strip())
check_contact(mobile) ==
    IF isna(mobile) THEN S("N")
    ELSE LET m == PyStrip(PyStr(mobile))
         IN  IF Len(m) = 12 /\ SubSeq(m, 1, 2) = "63" /\ AllDigits(m) THEN S("Y") ELSE S("N")

\* float(v) if pd.notna(v) and str(v).strip() != "" else 0.0
TemplateAmount(v) ==
    IF ~isna(v) /\ PyStrip(PyStr(v)) # "" THEN PyFloat(PyStr(v)) ELSE Num(0)

\* detect_template: a ValueError in any of the three conversions zeroes them all.
\* Only the first definition of process_data calls it, and the second definition
\* replaces that one when the module is loaded.
detect_template(row) ==
    LET ob == TemplateAmount(RowGet(row, "OB", S("0")))
        m == TemplateAmount(RowGet(row, "MPR", S("0")))
        p == TemplateAmount(RowGet(row, "PDA", S("0")))
        good == ob.ok /\ m.ok /\ p.ok
        mpr == IF good THEN m ELSE Num(0)
        pda == IF good THEN p ELSE Num(0)
        pos(x) == ~x.nan /\ x.cents > 0
        zero(x) == ~x.nan /\ x.cents = 0
    IN  IF pos(mpr) /\ zero(pda) THEN "WITH MPR ONLY"
        ELSE IF pos(pda) /\ zero(mpr) THEN "WITH PDA ONLY"
        ELSE IF pos(mpr) /\ pos(pda) THEN "WITH BOTH MPR AND PDA"
        ELSE "NO PAYMENT"

\* s.split()[0] of a stripped, non-empty text
RECURSIVE FirstToken(_)
FirstToken(s) == IF s = "" \/ IsSpace(Head(s)) THEN "" ELSE Head(s) \o FirstToken(Tail(s))

SerialEpochOffset == 25569
SerialMax == 132320

\* the calendar date of a day count from 1970-01-01, as MM/DD/YYYY
CivilFromDays(days) ==
    LET z == days + 719468
        era == z \div 146097
        doe == z - era * 146097
        yoe == (doe - doe \div 1460 + doe \div 36524 - doe \div 146096) \div 365
        doy == doe - (365 * yoe + yoe \div 4 - yoe \div 100)
        mp == (5 * doy + 2) \div 153
        d == doy - (153 * mp + 2) \div 5 + 1
        m == IF mp < 10 THEN mp + 3 ELSE mp - 9
        y == yoe + era * 400 + (IF m <= 2 THEN 1 ELSE 0)
    IN  PadLeft(NatToStr(m), 2) \o "/" \o PadLeft(NatToStr(d), 2) \o "/" \o PadLeft(NatToStr(y), 4)

\* re.fullmatch(r"\d+(?:\.0+)?", s)
LooksNumeric(s) ==
    LET dots == { i \in 1..Len(s) : Ch(s, i) = "." }
        dot == IF dots = {} THEN Len(s) + 1 ELSE CHOOSE i \in dots : TRUE
    IN  /\ Cardinality(dots) <= 1
        /\ dot > 1 /\ AllDigits(SubSeq(s, 1, dot - 1))
        /\ dots # {} => /\ dot < Len(s)
                        /\ \A i \in (dot + 1)..Len(s) : Ch(s, i) = "0"

NumericValue(s) ==
    LET dots == { i \in 1..Len(s) : Ch(s, i) = "." }
        dot == IF dots = {} THEN Len(s) + 1 ELSE CHOOSE i \in dots : TRUE
    IN  DigitsValue(SubSeq(s, 1, dot - 1))

\* pd.to_datetime(s, errors="coerce") on the texts of the model: an ISO date
\* YYYY-MM-DD, alone or followed by a time, parses; any other text is NaT ("")
ParseDate(s) ==
    IF /\ Len(s) \in {10, 19}
       /\ AllDigits(SubSeq(s, 1, 4)) /\ Ch(s, 5) = "-"
       /\ AllDigits(SubSeq(s, 6, 7)) /\ Ch(s, 8) = "-"
       /\ AllDigits(SubSeq(s, 9, 10))
       /\ DigitsValue(SubSeq(s, 6, 7)) \in 1..12
       /\ DigitsValue(SubSeq(s, 9, 10)) \in 1..28
       /\ Len(s) = 19 =>
            /\ Ch(s, 11) = " " /\ Ch(s, 14) = ":" /\ Ch(s, 17) = ":"
            /\ AllDigits(SubSeq(s, 12, 13)) /\ AllDigits(SubSeq(s, 15, 16))
            /\ AllDigits(SubSeq(s, 18, 19))
    THEN SubSeq(s, 6, 7) \o "/" \o SubSeq(s, 9, 10) \o "/" \o SubSeq(s, 1, 4)
    ELSE ""

format_excel_text_date(value) ==
    IF isna(value) THEN S("")
    ELSE LET s == PyStrip(PyStr(value))
         IN  IF s = "" THEN S("")
             ELSE IF LooksNumeric(s) /\ NumericValue(s) > 31 /\ NumericValue(s) <= SerialMax
             THEN S(CivilFromDays(NumericValue(s) - SerialEpochOffset))
             ELSE IF ParseDate(s) # "" THEN S(ParseDate(s))
             ELSE IF ParseDate(FirstToken(s)) # "" THEN S(ParseDate(FirstToken(s)))
             ELSE S(FirstToken(s))

\* the texts whose parse the model of format_excel_text_date covers
DateShapeCovered(text) ==
    LET s == PyStrip(text)
    IN  \/ s = ""
        \/ LooksNumeric(s) /\ NumericValue(s) > 31 /\ NumericValue(s) <= SerialMax
        \/ ParseDate(s) # ""
        \/ \A i \in 1..Len(s) : ~IsDigit(Ch(s, i))

-----------------------------------------------------------------------------
(* Template renderer *)

\* safe_float of format_preview: 0.0 for a missing or blank value and on any exception
safe_float(val) ==
    IF isna(val) \/ PyStrip(PyStr(val)) \in {"", "nan", "None"} THEN Num(0)
    ELSE IF PyFloat(PyStr(val)).ok THEN PyFloat(PyStr(val))
    ELSE Num(0)

\* the replacements dict, in insertion order
Replacements(row) ==
    << << "{CUST_NAME}", PyStr(RowGet(row, "CUSTOMER NAME", S(""))) >>,
       << "{ACC_NO}", PyStr(RowGet(row, "LOAN NUMBER", S(""))) >>,
       << "{OB}", Format2f(safe_float(RowGet(row, "OB", S("0")))) >>,
       << "{MPR}", Format2f(safe_float(RowGet(row, "MPR", S("0")))) >>,
       << "{PDA}", Format2f(safe_float(RowGet(row, "PDA", S("0")))) >>,
       << "{TPAP DD}", PyStr(RowGet(row, "TPAP DD", S(""))) >>,
       << "{PTP DATE}", PyStr(RowGet(row, "PTP DATE", S(""))) >>,
       << "{CYCLE}", PyStr(RowGet(row, "CYCLE", S(""))) >> >>

\* for key, value in replacements.items(): template = template.replace(key, value)
RECURSIVE ReplaceFrom(_, _, _)
ReplaceFrom(template, reps, k) ==
    IF k > Len(reps) THEN template
    ELSE ReplaceFrom(PyReplace(template, reps[k][1], reps[k][2]), reps, k + 1)

format_preview(template, row) == ReplaceFrom(template, Replacements(row), 1)

TemplateNames ==
    << "CUT OFF SMS", "MPR (3DYS) CUTOFF SMS", "MPR-PDA (L2DYS) CUTOFF SMS",
       "AFTER DUE DATE SMS", "TPAP SMS", "BP SMS (MPR-PDA)", "BP SMS NOT DUE (AOD-MPR)",
       "AOD-MPR", "PTP REMINDER SMS", "PTP SMS", "UNCONTACTED SMS", "PAYDAY SMS",
       "PRE PAYDAY SMS", "INSUFF SMS (MPR-PDA)", "INSUFF SMS NOT DUE (AOD-MPR)" >>

\* The template texts are deployment secrets, no part of the repository; the model
\* gives every key a text that uses the placeholders.
SecretText(k) ==
    IF k % 3 = 0 THEN "Hi {CUST_NAME}, pay {OB} for {ACC_NO} C{CYCLE}"
    ELSE IF k % 3 = 1 THEN "{CUST_NAME}: MPR {MPR} PDA {PDA} due {TPAP DD}"
    ELSE "PTP {PTP DATE} {UNKNOWN} {OB}"

\* TEMPLATES.get(key, "")
TemplatesGet(key) ==
    IF ~isna(key) /\ \E k \in 1..Len(TemplateNames) : TemplateNames[k] = PyStr(key)
    THEN SecretText(CHOOSE k \in 1..Len(TemplateNames) : TemplateNames[k] = PyStr(key))
    ELSE ""

-----------------------------------------------------------------------------
(* process_data, the definition bound at run time (the second of the two) *)

\* result[date_col] = result[date_col].apply(format_excel_text_date)
NormalizeDateColumn(frame, date_col) ==
    PutColumn(frame, date_col,
              [i \in 1..frame.n |-> format_excel_text_date(Column(frame, date_col)[i])])

\* for date_col in ["PTP DATE", "TPAP DD"]
NormalizeDates(frame) == NormalizeDateColumn(NormalizeDateColumn(frame, "PTP DATE"), "TPAP DD")

\* a plausible slip: the cycle written under the alias, a column of its own
SetCycleUnderAlias(frame, cyc) == SetScalar(frame, "COLLECTION CYCLE", S(cyc))

\* result["CYCLE"] = cycle
SetCycle(frame, cyc) == SetScalar(frame, "CYCLE", S(cyc))

SetBucket(frame) ==
    PutColumn(frame, "BUCKET", [i \in 1..frame.n |-> calculate_bucket(Column(frame, "OB")[i])])

SetContact(frame) ==
    PutColumn(frame, "WITH CONTACT Y/N",
              [i \in 1..frame.n |-> check_contact(Column(frame, "MOBILE NUMBER")[i])])

PreviewOfRow(frame, i) ==
    S(format_preview(TemplatesGet(Column(frame, "SMS TEMPLATE")[i]), RowOf(frame, i)))

\* result.apply(lambda r: ..., axis=1) and its assignment to result["PREVIEW"].  On
\* a frame without rows, apply returns either an empty Series or, in the pandas
\* releases that call the lambda on an empty Series (r["SMS TEMPLATE"] raises
\* there and the frame is handed back), a DataFrame, whose assignment to one
\* column raises ValueError.
SetPreview(frame, legacy) ==
    IF frame.n = 0 /\ legacy THEN [raised |-> TRUE, frame |-> frame]
    ELSE [raised |-> FALSE,
          frame |-> PutColumn(frame, "PREVIEW", [i \in 1..frame.n |-> PreviewOfRow(frame, i)])]

\* the outcomes of process_data: one, unless the frame has no rows and the result
\* hangs on the pandas release
process_data(df, cyc, info) ==
    LET result == SetContact(SetBucket(SetCycle(NormalizeDates(
                      map_and_align_columns(df, TARGET_HEADERS, info)), cyc)))
    IN  { SetPreview(result, legacy) : legacy \in BOOLEAN }

-----------------------------------------------------------------------------
(* main, Step 1 *)

\* pd.read_csv(..., dtype=str, na_filter=False): every cell a string
DecodeFile(file) ==
    [n |-> Len(file.rows),
     cols |-> [j \in 1..Len(file.columns) |->
                 [name |-> file.columns[j],
                  vals |-> [i \in 1..Len(file.rows) |-> S(file.rows[i][j])]]]]

\* .astype(str).str.replace(",", "").str.strip().replace({"": "0", "nan": "0", "None": "0"})
CleanCell(cell) ==
    LET c == PyStrip(PyReplace(PyStr(cell), ",", ""))
    IN  IF c \in {"", "nan", "None"} THEN S("0") ELSE S(c)

\* for col in ["OB", "MPR", "PDA"]: if col in df.columns: ...
CleanNumeric(df) ==
    [df EXCEPT !.cols = [j \in 1..Len(df.cols) |->
        IF df.cols[j].name \in {"OB", "MPR", "PDA"}
        THEN [df.cols[j] EXCEPT !.vals = [i \in 1..df.n |-> CleanCell(df.cols[j].vals[i])]]
        ELSE df.cols[j]]]

\* what format_preview worked with for the amounts of each row
RenderedAmounts(frame) ==
    [i \in 1..frame.n |->
        [t \in {"OB", "MPR", "PDA"} |-> safe_float(RowGet(RowOf(frame, i), t, S("0")))]]

\* the Step 1 handler on an uploaded file: cycle, decode, cleanup, process_data;
\* an exception is caught and shown, and the session keeps what it had
UploadPrimary(file) ==
    /\ pc = "idle"
    /\ \E cyc \in { detect_cycle_from_filename(file.name) } :
       \E df \in { CleanNumeric(DecodeFile(file)) } :
       \E info \in { detection_info(df, TARGET_HEADERS) } :
       \E res \in process_data(df, cyc, info) :
          /\ raw' = file
          /\ cycle' = cyc
          /\ cleaned' = df
          /\ detection' = info
          /\ IF res.raised
             THEN /\ pc' = "error"
                  /\ UNCHANGED <<processed, rendered>>
             ELSE /\ pc' = "processed"
                  /\ processed' = res.frame
                  /\ rendered' = RenderedAmounts(res.frame)
    /\ UNCHANGED <<downloads, fnInput, fnOutput>>

-----------------------------------------------------------------------------
(* main, Step 2 *)

\* df.to_csv(index=False): the header line and one line per row, a missing value
\* written as the empty field
to_csv(frame) ==
    [header |-> ColumnNames(frame),
     lines |-> [i \in 1..frame.n |->
                  [j \in 1..Len(frame.cols) |->
                      IF isna(frame.cols[j].vals[i]) THEN "" ELSE PyStr(frame.cols[j].vals[i])]]]

\* the two download buttons, both carrying csv_full under the same file name
ReviewExport ==
    /\ pc = "processed"
    /\ pc' = "exported"
    /\ downloads' =
         << [label |-> "Full CSV (with Preview)",
             file_name |-> "SMS_FULL_" \o raw.name \o ".csv",
             data |-> to_csv(processed)],
            [label |-> "Full EXCEL (with Preview)",
             file_name |-> "SMS_FULL_" \o raw.name \o ".csv",
             data |-> to_csv(processed)] >>
    /\ UNCHANGED <<raw, cycle, cleaned, detection, processed, rendered, fnInput, fnOutput>>

-----------------------------------------------------------------------------
(* The uploads the pipeline is run on *)

Range(seq) == { seq[i] : i \in 1..Len(seq) }

\* the sequences of distinct members of pool, of length 0..n
RECURSIVE DistinctSeqs(_, _)
DistinctSeqs(pool, n) ==
    IF n = 0 THEN { <<>> }
    ELSE LET shorter == DistinctSeqs(pool, n - 1)
         IN  shorter \cup { Append(p[1], p[2]) :
                              p \in { q \in shorter \X pool : q[2] \notin Range(q[1]) } }

\* the sequences of members of pool, of length 0..n
RECURSIVE AllSeqs(_, _)
AllSeqs(pool, n) ==
    IF n = 0 THEN { <<>> }
    ELSE LET shorter == AllSeqs(pool, n - 1)
         IN  shorter \cup { Append(s, x) : s \in shorter, x \in pool }

PipelineNames == { "BPI_C21.csv", "data.csv" }

\* Headers for each matching rule: exact, equal after normalization, alias,
\* partial ("job" contains "ob"), empty after normalization (contained in every
\* name), no match, partial for another field
AlignHeaders == { "OB", "ob.", "OUTSTANDING", "JOB", "#", "REMARKS", "TEMPLATE" }

RowSeeds == { "A", "B" }

AlignCell(h, seed) ==
    CASE h \in { "OB", "ob.", "OUTSTANDING", "JOB" } -> IF seed = "A" THEN "1,500" ELSE "60000"
      [] h = "TEMPLATE" -> IF seed = "A" THEN "PTP SMS" ELSE "OTHER"
      [] h = "#" -> "row" \o seed
      [] OTHER -> "rem" \o seed

\* every upload has at least one column: an empty file fails to decode
AlignFiles ==
    { [name |-> f, columns |-> cs,
       rows |-> [i \in 1..Len(seeds) |-> [j \in 1..Len(cs) |-> AlignCell(cs[j], seeds[i])]]] :
         f \in PipelineNames,
         cs \in DistinctSeqs(AlignHeaders, MaxCols) \ { <<>> },
         seeds \in AllSeqs(RowSeeds, MaxRows) }

\* Amount columns under exact and alias headers, with and without the columns the
\* pipeline derives; the columns keep the order of this list.  A file with a PDA
\* column has a PTP DATE column too: "ptpdate" contains "pda", and without one the
\* amounts of PDA would be read as dates.
AmountHeaders == << "OB", "OUTSTANDING", "MPR", "PDA", "PTP DATE", "SMS TEMPLATE", "BUCKET" >>

DateCells == << "44927", "N/A", "2024-01-05 10:30:00", "" >>

InListOrder(cs, list) ==
    \A a, b \in 1..Len(cs) :
        a < b => \E x, y \in 1..Len(list) : x < y /\ list[x] = cs[a] /\ list[y] = cs[b]

\* amounts at and around the bucket thresholds, with separators, blanks and text
AmountRows ==
    << [ob |-> "6000",      mpr |-> "0",     pda |-> "300"],
       [ob |-> "49,999.99", mpr |-> "1,500", pda |-> "300"],
       [ob |-> "50000",     mpr |-> "",      pda |-> ""],
       [ob |-> " 100,000 ", mpr |-> "abc",   pda |-> "0"],
       [ob |-> "-1",        mpr |-> "500",   pda |-> " 7 "],
       [ob |-> "abc",       mpr |-> "nan",   pda |-> "1,000"],
       [ob |-> "",          mpr |-> "0",     pda |-> "0"] >>

AmountCell(h, seed) ==
    CASE h \in { "OB", "OUTSTANDING" } -> AmountRows[seed].ob
      [] h = "MPR" -> AmountRows[seed].mpr
      [] h = "PDA" -> AmountRows[seed].pda
      [] h = "SMS TEMPLATE" -> IF seed % 2 = 0 THEN "PTP SMS" ELSE "custom"
      [] h = "PTP DATE" -> DateCells[(seed % Len(DateCells)) + 1]
      [] OTHER -> "OLD"

AmountFiles ==
    { [name |-> f, columns |-> cs,
       rows |-> [i \in 1..Len(seeds) |-> [j \in 1..Len(cs) |-> AmountCell(cs[j], seeds[i])]]] :
         f \in { "BPI_C21.csv" },
         cs \in { c \in DistinctSeqs(Range(AmountHeaders), MaxCols) :
                    /\ InListOrder(c, AmountHeaders)
                    /\ "PDA" \in Range(c) => "PTP DATE" \in Range(c) } \ { <<>> },
         seeds \in AllSeqs(1..Len(AmountRows), MaxRows) }

Idle == [name |-> "", columns |-> <<>>, rows |-> <<>>]

Init ==
    /\ pc = "idle"
    /\ raw = Idle /\ cycle = "" /\ cleaned = NoFrame /\ detection = <<>>
    /\ processed = NoFrame /\ rendered = <<>> /\ downloads = <<>>
    /\ fnInput = <<>> /\ fnOutput = ""

Next ==
    \/ pc = "idle" /\ \E file \in AlignFiles : UploadPrimary(file)
    \/ ReviewExport

Spec == Init /\ [][Next]_vars

NextAmounts ==
    \/ pc = "idle" /\ \E file \in AmountFiles : UploadPrimary(file)
    \/ ReviewExport

SpecAmounts == Init /\ [][NextAmounts]_vars

\* every text that reaches the date normalization is one whose parse is modelled
DateInputsCovered ==
    pc \in { "processed", "exported", "error" } =>
        \A k \in 1..Len(TARGET_HEADERS) :
            (TARGET_HEADERS[k] \in { "PTP DATE", "TPAP DD" } /\ detection[k].rule # "Unresolved")
            => \A i \in 1..cleaned.n : DateShapeCovered(PyStr(Column(cleaned, detection[k].col)[i]))

-----------------------------------------------------------------------------
(* Claims on the pipeline, alignment *)

Done == pc \in { "processed", "exported" }
Ran == pc \in { "processed", "exported", "error" }

TargetIndex(t) == CHOOSE k \in 1..Len(TARGET_HEADERS) : TARGET_HEADERS[k] = t
RawIndex(h) == CHOOSE j \in 1..Len(raw.columns) : raw.columns[j] = h

\* the fields process_data computes or rewrites after the alignment
DerivedFields == { "CYCLE", "BUCKET", "WITH CONTACT Y/N", "PREVIEW", "PTP DATE", "TPAP DD" }

\* C1: whatever the source headers and the cycle, the table process_data returns
\* has exactly the columns of TARGET_HEADERS, each once, in that order.
C1_CanonicalColumns == Done => ColumnNames(processed) = TARGET_HEADERS

\* a table came back for a file with a cycle, rows, a header of no canonical
\* field and two headers of the same canonical field
C1_Witness ==
    /\ Done /\ cycle = "21" /\ processed.n > 0
    /\ { "REMARKS", "OB", "ob." } \subseteq Range(raw.columns)

\* C2: the aligned table has the rows of the input, one for one and in order; a
\* field without a source header is missing in every row, also when no field at
\* all has one.
C2_RowsOneToOne ==
    Done =>
        /\ processed.n = Len(raw.rows)
        /\ \A k \in 1..Len(TARGET_HEADERS) :
              TARGET_HEADERS[k] \notin DerivedFields =>
                 \A i \in 1..Len(raw.rows) :
                    IF detection[k].rule = "Unresolved"
                    THEN isna(Column(processed, TARGET_HEADERS[k])[i])
                    ELSE Column(processed, TARGET_HEADERS[k])[i]
                            = Column(cleaned, detection[k].col)[i]

\* the normalized forms the rules compare, computed from the texts themselves
TargetNorm == [k \in 1..Len(TARGET_HEADERS) |-> NormalizeText(TARGET_HEADERS[k])]
AliasNorms ==
    [k \in 1..Len(TARGET_HEADERS) |->
        { NormalizeText(HEADER_ALIASES[TARGET_HEADERS[k]][a]) :
            a \in 1..Len(HEADER_ALIASES[TARGET_HEADERS[k]]) }]
RawNorms == [j \in 1..Len(raw.columns) |-> NormalizeText(raw.columns[j])]

DirectCandidates(rn, k) == { j \in 1..Len(rn) : rn[j] = TargetNorm[k] }
AliasCandidates(rn, k) == { j \in 1..Len(rn) : rn[j] \in AliasNorms[k] }
FuzzyCandidates(rn, k) ==
    { j \in 1..Len(rn) : Contains(rn[j], TargetNorm[k]) \/ Contains(TargetNorm[k], rn[j]) }

\* C3: for each canonical field on its own, the chosen source header is that of
\* the first rule to succeed among Direct, Alias and Fuzzy (the first qualifying
\* header in column order), else none; a Direct or Alias header is never
\* displaced by a Fuzzy candidate, wherever that one stands in the file.  The
\* chosen header is the one whose cells the aligned column carries.
C3_MatchingPrecedence ==
    Ran =>
      \A rn \in { RawNorms } :
      \A k \in 1..Len(TARGET_HEADERS) :
        LET t == TARGET_HEADERS[k]
            d == detection[k]
            direct == DirectCandidates(rn, k)
            alias == AliasCandidates(rn, k)
            fuzzy == FuzzyCandidates(rn, k)
        IN  /\ direct # {} =>
                 d.rule = "Direct" /\ \E j \in direct : d.col = raw.columns[j]
            /\ (direct = {} /\ alias # {}) =>
                 d.rule = "Alias" /\ \E j \in alias : d.col = raw.columns[j]
            /\ (direct = {} /\ alias = {} /\ fuzzy # {}) =>
                 /\ d.rule = "Fuzzy"
                 /\ \E j \in fuzzy : d.col = raw.columns[j] /\ \A j2 \in fuzzy : j <= j2
            /\ (direct = {} /\ alias = {} /\ fuzzy = {}) => d.rule = "Unresolved"
            /\ (Done /\ d.rule # "Unresolved" /\ t \notin DerivedFields) =>
                 Column(processed, t) = Column(cleaned, d.col)

\* one field took its exact or alias header although a partial-match candidate
\* stands earlier in the file, another field took a partial match and a third
\* found no header
C3_Witness ==
    /\ Done /\ processed.n > 0
    /\ \E k \in 1..Len(TARGET_HEADERS) :
          /\ detection[k].rule \in { "Direct", "Alias" }
          /\ \E j \in FuzzyCandidates(RawNorms, k) :
                /\ j < RawIndex(detection[k].col)
                /\ j \notin DirectCandidates(RawNorms, k)
                /\ j \notin AliasCandidates(RawNorms, k)
    /\ \E k \in 1..Len(TARGET_HEADERS) : detection[k].rule = "Fuzzy"
    /\ \E k \in 1..Len(TARGET_HEADERS) : detection[k].rule = "Unresolved"

-----------------------------------------------------------------------------
(* Claims on the export *)

\* the rows of the final table whose trimmed SMS TEMPLATE is the name, whatever
\* the case, as lines of the export schema
RECURSIVE SubsetLines(_, _)
SubsetLines(name, i) ==
    IF i > processed.n THEN <<>>
    ELSE LET cell == Column(processed, "SMS TEMPLATE")[i]
             line == [j \in 1..Len(EXPORT_HEADERS) |->
                        LET c == Column(processed, EXPORT_HEADERS[j])[i]
                        IN  IF isna(c) THEN "" ELSE PyStr(c)]
         IN  (IF ~isna(cell) /\ PyLower(PyStrip(PyStr(cell))) = PyLower(name)
              THEN << line >> ELSE <<>>) \o SubsetLines(name, i + 1)

\* C6: the export gives one row subset per name of the template catalog, empty
\* ones included, each with exactly the columns of the export schema and exactly
\* the rows whose trimmed SMS TEMPLATE is that name, case-insensitively.
C6_OneSubsetPerTemplate ==
    pc = "exported" =>
        /\ Len(downloads) = Len(TemplateNames)
        /\ \A t \in 1..Len(TemplateNames) :
              \E d \in 1..Len(downloads) :
                 /\ downloads[d].data.header = EXPORT_HEADERS
                 /\ downloads[d].data.lines = SubsetLines(TemplateNames[t], 1)

-----------------------------------------------------------------------------
(* Claims on the pipeline, amounts and derived fields *)

\* the source cell of row i under the header chosen for field t
SourceCell(t, i) == raw.rows[i][RawIndex(detection[TargetIndex(t)].col)]

\* C4: after the pipeline every row's SMS TEMPLATE is the source value when the
\* raw input has an SMS TEMPLATE column, and otherwise the label the decision
\* table gives for the row's MPR and PDA (NO PAYMENT, WITH MPR ONLY, WITH PDA
\* ONLY, WITH BOTH MPR AND PDA).
C4_TemplateKeptOrDerived ==
    Done =>
        \A i \in 1..processed.n :
            Column(processed, "SMS TEMPLATE")[i] =
                IF "SMS TEMPLATE" \in Range(raw.columns)
                THEN S(raw.rows[i][RawIndex("SMS TEMPLATE")])
                ELSE S(detect_template(RowOf(processed, i)))

\* an amount as specified: separators and surrounding blanks stripped, 0 for a
\* blank or unparseable cell
CleanedAmount(text) ==
    LET v == PyFloat(PyStrip(PyReplace(text, ",", "")))
    IN  IF v.ok /\ ~v.nan THEN v ELSE Num(0)

\* C7: for every row the OB, MPR and PDA the pipeline works with, in BUCKET and
\* in the placeholders of PREVIEW, are the cleaned source cell (0 when blank or
\* unparseable), whichever header supplied the field; the number rendered for
\* {OB} is the number BUCKET classified.
C7_AmountsAreCleanedSource ==
    Done =>
        \A i \in 1..processed.n : \A t \in { "OB", "MPR", "PDA" } :
            detection[TargetIndex(t)].rule # "Unresolved" =>
                \A want \in { CleanedAmount(SourceCell(t, i)) } :
                    /\ rendered[i][t] = want
                    /\ t = "OB" =>
                          /\ want.cents >= 100000 * CentsPerUnit
                                => Column(processed, "BUCKET")[i] = S("100K and up")
                          /\ want.cents \in (50000 * CentsPerUnit)..(100000 * CentsPerUnit - 1)
                                => Column(processed, "BUCKET")[i] = S("50K - 99K")
                          /\ want.cents \in (6000 * CentsPerUnit)..(50000 * CentsPerUnit - 1)
                                => Column(processed, "BUCKET")[i] = S("6K - 49K")
                          /\ want.cents \in 0..(6000 * CentsPerUnit - 1)
                                => Column(processed, "BUCKET")[i] = S("0 - 5K")

\* the number calculate_bucket reads in the OB of a row of the returned table
ObValue(cell) == PyFloat(PyStrip(PyReplace(PyStr(cell), ",", "")))

\* C9: after process_data every row's BUCKET is the class of the row's OB by
\* closed lower bounds, highest first: 100000 and more "100K and up", 50000 to
\* under 100000 "50K - 99K", 6000 to under 50000 "6K - 49K", 0 to under 6000
\* "0 - 5K", negative or unparseable missing; a BUCKET copied from the source is
\* overwritten.
C9_BucketClassifiesOB ==
    Done =>
        \A i \in 1..processed.n :
            \A v \in { ObValue(Column(processed, "OB")[i]) } :
            \A b \in { Column(processed, "BUCKET")[i] } :
                /\ (~v.ok \/ v.nan \/ v.cents < 0) => b = NA
                /\ (v.ok /\ ~v.nan) =>
                      /\ v.cents >= 100000 * CentsPerUnit => b = S("100K and up")
                      /\ v.cents \in (50000 * CentsPerUnit)..(100000 * CentsPerUnit - 1)
                            => b = S("50K - 99K")
                      /\ v.cents \in (6000 * CentsPerUnit)..(50000 * CentsPerUnit - 1)
                            => b = S("6K - 49K")
                      /\ v.cents \in 0..(6000 * CentsPerUnit - 1) => b = S("0 - 5K")

\* the source had a BUCKET column of its own, one row with OB exactly 50000 and
\* one with a negative OB
C9_Witness ==
    /\ Done /\ { "OB", "BUCKET" } \subseteq Range(raw.columns)
    /\ \E i, j \in 1..processed.n :
          /\ raw.rows[i][RawIndex("BUCKET")] = "OLD"
          /\ Column(processed, "OB")[i] = S("50000")
          /\ Column(processed, "BUCKET")[i] = S("50K - 99K")
          /\ Column(processed, "OB")[j] = S("-1")
          /\ Column(processed, "BUCKET")[j] = NA

-----------------------------------------------------------------------------
(* Function check: format_preview on templates built from a few pieces *)

MaxPieces == 3

TemplatePieces == { "{CUST_NAME}", "{OB}", "{CYCLE}", "{FOO}", "Hi " }

RECURSIVE Joined(_)
Joined(pieces) == IF pieces = <<>> THEN "" ELSE Head(pieces) \o Joined(Tail(pieces))

TemplatePool == { Joined(ps) : ps \in AllSeqs(TemplatePieces, MaxPieces) }

PreviewRows ==
    { [f \in { "CUSTOMER NAME", "LOAN NUMBER", "OB", "CYCLE" } |->
          CASE f = "CUSTOMER NAME" -> S(name)
            [] f = "LOAN NUMBER" -> S("L-1")
            [] f = "OB" -> S(ob)
            [] OTHER -> S(cyc)] :
        name \in { "Juan", "{OB}", "{CYCLE}" }, ob \in { "1500", "abc" }, cyc \in { "21", "" } }

InitPreview ==
    /\ pc = "start"
    /\ fnInput \in { [template |-> t, row |-> r] : t \in TemplatePool, r \in PreviewRows }
    /\ fnOutput = ""
    /\ raw = Idle /\ cycle = "" /\ cleaned = NoFrame /\ detection = <<>>
    /\ processed = NoFrame /\ rendered = <<>> /\ downloads = <<>>

Render ==
    /\ pc = "start"
    /\ pc' = "done"
    /\ fnOutput' = format_preview(fnInput.template, fnInput.row)
    /\ UNCHANGED <<raw, cycle, cleaned, detection, processed, rendered, downloads, fnInput>>

NextPreview == Render

SpecPreview == InitPreview /\ [][NextPreview]_vars

\* the substitution as specified: one pass over the template, each occurrence of
\* a recognized placeholder giving way to its value, everything else kept, the
\* inserted values not read again
RECURSIVE SinglePass(_, _)
SinglePass(template, reps) ==
    IF template = "" THEN ""
    ELSE LET hits == { k \in 1..Len(reps) :
                         SubSeq(template, 1, Len(reps[k][1])) = reps[k][1] }
         IN  IF hits = {} THEN Head(template) \o SinglePass(Tail(template), reps)
             ELSE LET k == CHOOSE h \in hits : TRUE
                  IN  reps[k][2]
                      \o SinglePass(SubSeq(template, Len(reps[k][1]) + 1, Len(template)), reps)

\* C8: format_preview gives the template with every recognized placeholder
\* replaced by the row's formatted value and every other character, unrecognized
\* placeholders included, left as it is; text put in for one placeholder is not
\* rewritten by a later substitution.
C8_SinglePassSubstitution ==
    pc = "done" /\ "template" \in DOMAIN fnInput =>
        fnOutput = SinglePass(fnInput.template, Replacements(fnInput.row))

-----------------------------------------------------------------------------
(* Function check: the cycle detector on every file name over a small alphabet *)

NameAlphabet == "Cc7B-."
FileNamePool == StringsUpTo(NameAlphabet, MaxNameLen)

InitCycle ==
    /\ pc = "start"
    /\ fnInput \in { [filename |-> f] : f \in FileNamePool }
    /\ fnOutput = ""
    /\ raw = Idle /\ cycle = "" /\ cleaned = NoFrame /\ detection = <<>>
    /\ processed = NoFrame /\ rendered = <<>> /\ downloads = <<>>

DetectCycle ==
    /\ pc = "start"
    /\ pc' = "done"
    /\ fnOutput' = detect_cycle_from_filename(fnInput.filename)
    /\ UNCHANGED <<raw, cycle, cleaned, detection, processed, rendered, downloads, fnInput>>

NextCycle == DetectCycle

SpecCycle == InitCycle /\ [][NextCycle]_vars

-----------------------------------------------------------------------------
(* The cycle detector as specified: a C, case-insensitive, followed by 1 to 4
   digits, the token bounded on both sides by a non-word character or an end
   of the name *)

IsWordChar(c) == IsAlnumLower(LowerCh(c)) \/ c = "_"

DigitRun(s) == TakeDigits(s, Len(s))

BoundedCycleTokenAt(f, i) ==
    /\ IsC(Ch(f, i))
    /\ i = 1 \/ ~IsWordChar(Ch(f, i - 1))
    /\ LET run == DigitRun(SubSeq(f, i + 1, Len(f)))
       IN  /\ Len(run) \in 1..4
           /\ i + Len(run) = Len(f) \/ ~IsWordChar(Ch(f, i + Len(run) + 1))

SpecifiedCycle(f) ==
    LET hits == { i \in 1..Len(f) : BoundedCycleTokenAt(f, i) }
    IN  IF hits = {} THEN ""
        ELSE LET first == CHOOSE i \in hits : \A j \in hits : i <= j
             IN  DigitRun(SubSeq(f, first + 1, Len(f)))

\* C5: detect_cycle_from_filename returns the digits of the first C followed by
\* 1 to 4 digits and bounded by non-word characters, and the empty string for
\* every file name without such a token (a C-digits run inside a longer word, or
\* followed by more digits, gives no cycle).
C5_CycleIsBoundedToken ==
    pc = "done" /\ "filename" \in DOMAIN fnInput => fnOutput = SpecifiedCycle(fnInput.filename)

====
